---- MODULE Spec2Model ----
(***************************************************************************)
(* PyModMon (src/pymodmon.py): the poll scheduler (Inout.runCommunication, *)
(* Inout.stopCommunication, threading.Timer), the poll cycle               *)
(* (Inout.pollTargetData), the sample buffer (data.databuffer,             *)
(* data.datawritebuffer) and the log writer (Inout.writeLoggerDataFile).   *)
(*                                                                         *)
(* Thread 0 is the main thread (the Tk main loop in GUI mode, the script   *)
(* in command line mode); thread k >= 1 is the thread of the k-th          *)
(* threading.Timer.  A step of the model is one statement (or one run of   *)
(* statements that touch no shared attribute) of one thread.               *)
(***************************************************************************)
EXTENDS Integers, Sequences, FiniteSets, TLC

\* ------------------------------------------------------------------ bounds
MaxTicks == 3      \* poll cycles started in one run of Spec
MaxPolls == 7      \* poll cycles started in one run of SpecPoll
MaxBuf   == 3      \* largest --logbuffer value tried besides the default
NDesc    == 3      \* rows of data.datasets after the header row
MaxEditTicks == 2  \* poll cycles started in one run of SpecEdit

\* ------------------------------------------------------- program constants
DefaultLogMaxBuffer == 50
DefaultLogInterval == 5

MaxThreads == IF MaxTicks > MaxPolls THEN MaxTicks ELSE MaxPolls
Threads == 0..MaxThreads   \* 0: the main thread; k >= 1: the thread of Timer k
Timers == 1..MaxThreads

VARIABLES
    mode,             \* "gui": Tk main loop; "cli": command line; "single": command line with --single
    logfilename,      \* data.logfilename: "None" or "file"
    logmaxbuffer,     \* data.logmaxbuffer
    datavector,       \* data.datavector
    databuffer,       \* data.databuffer
    datawritebuffer,  \* data.datawritebuffer
    aliased,          \* TRUE while databuffer and datawritebuffer name the same list object
    commtimer,        \* inout.commtimer: id of the Timer it refers to, 0 while the attribute is unset
    timer,            \* state of each threading.Timer
    pc,               \* position of each thread
    idx,              \* per thread: index of the row of data.datasets[1:] being read
    ret,              \* per thread: caller of the running writeLoggerDataFile ("poll", "stop", "exit_stop", "exit_flush", "init")
    button,           \* command bound to gui.commButton: "start" or "stop"
    nTicks,           \* poll cycles started so far
    nSamples,         \* samples appended so far (sample ids are 1..nSamples)
    logfile,          \* what the output sink received: the batches, in order
    header,           \* for every header written to the log file, the number of
                      \* batches the file held when it was written
    errormessages,    \* number of error messages pollTargetData of the LCD variant
                      \* has shown or printed
    stopped,          \* a stop command was issued and no start command since
    caught,           \* threads that were inside runCommunication when the last stop was issued
    stopsnap,         \* ids of the samples appended before the last stop was issued
    stopflush,        \* the flush of the last stop: "none", "written" or "failed"
    readerr,          \* per thread: row whose read, decode or format raised in its current cycle (number of rows + 1: the display update raised), 0 if none
    datasets,         \* data.datasets[1:], each row with the register words the target answers with
    client,           \* per thread: the ModbusClient of its current runCommunication
    exitflush,        \* the flushes of cleanOnExit: "none", "written", or "failed" once one could not open the file
    slice,            \* per thread: the copy data.datasets[1:] the loop of its pollTargetData iterates over
    loginterval       \* data.loginterval: seconds a Timer waits

vars == <<mode, logfilename, logmaxbuffer, datavector, databuffer, datawritebuffer,
          aliased, commtimer, timer, pc, idx, ret, button, nTicks, nSamples, logfile, header, errormessages,
          stopped, caught, stopsnap, stopflush, readerr, datasets, client, exitflush,
          slice, loginterval>>

\* ------------------------------------------------------------ decoded values
\* A decoded integer is a sign and a magnitude of four 16-bit limbs, most
\* significant first, so that 64-bit values stay exact.
Int64(neg, w1, w2, w3, w4) == [neg |-> neg, mag |-> <<w1, w2, w3, w4>>]

\* Inout.MIN_SIGNED = -2147483648 and Inout.MAX_UNSIGNED = 4294967295
MIN_SIGNED   == Int64(TRUE, 0, 0, 32768, 0)
MAX_UNSIGNED == Int64(FALSE, 0, 0, 65535, 65535)

\* data.moddatatype: register words per element type
moddatatype == [S32 |-> 2, U32 |-> 2, U64 |-> 4, STR32 |-> 16, S16 |-> 1, U16 |-> 1]

\* a decoded text: the bytes taken from the payload
Str(bytes) == [str |-> bytes]
IsStr(v) == "str" \in DOMAIN v

\* an exception that leaves the loop body of pollTargetData
Raise(what) == [raise |-> what]
IsRaise(v) == "raise" \in DOMAIN v

\* BinaryPayloadDecoder.fromRegisters(received.registers, endian=Endian.Big):
\* the payload holds each register as two bytes, high byte first
fromRegisters(w) ==
    [j \in 1..(2 * Len(w)) |-> IF j % 2 = 1 THEN w[(j + 1) \div 2] \div 256 ELSE w[j \div 2] % 256]

\* message.decode_*(): struct.unpack raises when the payload is shorter than
\* the value, and words after the value are left unread
decode_16bit_uint(w) ==
    IF Len(w) < 1 THEN Raise("struct.error")
    ELSE Int64(FALSE, 0, 0, 0, w[1])

decode_16bit_int(w) ==
    IF Len(w) < 1 THEN Raise("struct.error")
    ELSE IF w[1] >= 32768 THEN Int64(TRUE, 0, 0, 0, 65536 - w[1])
    ELSE Int64(FALSE, 0, 0, 0, w[1])

decode_32bit_uint(w) ==
    IF Len(w) < 2 THEN Raise("struct.error")
    ELSE Int64(FALSE, 0, 0, w[1], w[2])

\* the two words taken least significant first
decode_32bit_int_wordswap(w) ==
    IF Len(w) < 2 THEN Raise("struct.error")
    ELSE IF w[2] >= 32768
    THEN Int64(TRUE, 0, 0, (65535 - w[2]) + (IF w[1] = 0 THEN 1 ELSE 0), (65536 - w[1]) % 65536)
    ELSE Int64(FALSE, 0, 0, w[2], w[1])

decode_32bit_int(w) ==
    IF Len(w) < 2 THEN Raise("struct.error")
    ELSE IF w[1] >= 32768
    THEN Int64(TRUE, 0, 0, (65535 - w[1]) + (IF w[2] = 0 THEN 1 ELSE 0), (65536 - w[2]) % 65536)
    ELSE Int64(FALSE, 0, 0, w[1], w[2])

decode_64bit_uint(w) ==
    IF Len(w) < 4 THEN Raise("struct.error")
    ELSE Int64(FALSE, w[1], w[2], w[3], w[4])

\* message.decode_string(size): the next size bytes of the payload as they
\* are, fewer when the payload is shorter
decode_string(w, size) ==
    LET payload == fromRegisters(w)
    IN  Str(SubSeq(payload, 1, IF Len(payload) < size THEN Len(payload) ELSE size))

\* the if/elif chain of pollTargetData over thisrow[1]
Interpret(type, w) ==
    CASE type = "S32"   -> decode_32bit_int(w)
      [] type = "U32"   -> decode_32bit_uint(w)
      [] type = "U64"   -> decode_64bit_uint(w)
      [] type = "STR32" -> decode_string(w, 32)
      [] type = "S16"   -> decode_16bit_int(w)
      [] type = "U16"   -> decode_16bit_uint(w)
      [] OTHER          -> decode_16bit_uint(w)

\* a formatted value: None, or the decoded value over a divisor (divisor 1:
\* the decoded value itself; any other divisor: float(value) / divisor)
None == [kind |-> "none", val |-> Int64(FALSE, 0, 0, 0, 0), div |-> 1]
Number(v, d) == [kind |-> "num", val |-> v, div |-> d]

\* float(text) accepts digits between optional blanks (the part of the float
\* syntax the texts of this model can spell) and raises ValueError otherwise
IsFloatText(bytes) ==
    \E a \in 1..Len(bytes) : \E b \in a..Len(bytes) :
        \A j \in 1..Len(bytes) :
            IF j < a \/ j > b THEN bytes[j] = 32 ELSE bytes[j] \in 48..57

\* float(interpreted) / divisor
FloatDiv(interpreted, divisor) ==
    IF IsStr(interpreted) /\ ~IsFloatText(interpreted.str) THEN Raise("ValueError")
    ELSE Number(interpreted, divisor)

\* the sentinel test without MAX_UNSIGNED: 4294967295 is formatted as a number
DisplayData_signedonly(interpreted, format) ==
    IF interpreted = MIN_SIGNED THEN None
    ELSE CASE format = "FIX3" -> FloatDiv(interpreted, 1000)
           [] format = "FIX2" -> FloatDiv(interpreted, 100)
           [] format = "FIX1" -> FloatDiv(interpreted, 10)
           [] OTHER           -> Number(interpreted, 1)

\* the format chain with FIX2 dividing by 10
DisplayData_fix2by10(interpreted, format) ==
    IF interpreted = MIN_SIGNED \/ interpreted = MAX_UNSIGNED THEN None
    ELSE CASE format = "FIX3" -> FloatDiv(interpreted, 1000)
           [] format = "FIX2" -> FloatDiv(interpreted, 10)
           [] format = "FIX1" -> FloatDiv(interpreted, 10)
           [] OTHER           -> Number(interpreted, 1)

\* the format chain with a final else that raises for a kind it does not know
DisplayData_strict(interpreted, format) ==
    IF interpreted = MIN_SIGNED \/ interpreted = MAX_UNSIGNED THEN None
    ELSE CASE format = "FIX3" -> FloatDiv(interpreted, 1000)
           [] format = "FIX2" -> FloatDiv(interpreted, 100)
           [] format = "FIX1" -> FloatDiv(interpreted, 10)
           [] format \in {"FIX0", "RAW", "UTF8", "ENUM"} -> Number(interpreted, 1)
           [] OTHER           -> Raise("ValueError")

\* the sentinel test with the 16-bit all-ones value as a third sentinel
DisplayData_allones16(interpreted, format) ==
    IF interpreted = MIN_SIGNED \/ interpreted = MAX_UNSIGNED
          \/ interpreted = Int64(FALSE, 0, 0, 0, 65535) THEN None
    ELSE CASE format = "FIX3" -> FloatDiv(interpreted, 1000)
           [] format = "FIX2" -> FloatDiv(interpreted, 100)
           [] format = "FIX1" -> FloatDiv(interpreted, 10)
           [] OTHER           -> Number(interpreted, 1)

\* the sentinel test and the format chain of pollTargetData over thisrow[2]
DisplayData(interpreted, format) ==
    IF interpreted = MIN_SIGNED \/ interpreted = MAX_UNSIGNED THEN None
    ELSE CASE format = "FIX3" -> FloatDiv(interpreted, 1000)
           [] format = "FIX2" -> FloatDiv(interpreted, 100)
           [] format = "FIX1" -> FloatDiv(interpreted, 10)
           [] OTHER           -> Number(interpreted, 1)

\* one pass of the loop body of pollTargetData over a row: the value appended
\* to data.datavector, or the exception raised.  data.moddatatype[thisrow[1]]
\* raises KeyError for a type that is no key of the dictionary.
PollRow(thisrow) ==
    IF thisrow.type \notin DOMAIN moddatatype THEN Raise("KeyError")
    ELSE LET interpreted == Interpret(thisrow.type, thisrow.registers)
         IN  IF IsRaise(interpreted) THEN interpreted
             ELSE DisplayData(interpreted, thisrow.format)

\* ------------------------------------------------------ descriptor table
\* the rows of an imported configuration, and the register words the target
\* answers with for each row
Rows == << [address |-> 30775, type |-> "U16", format |-> "RAW",  registers |-> <<1234>>],
           [address |-> 30769, type |-> "S32", format |-> "FIX2", registers |-> <<32768, 0>>],
           [address |-> 30529, type |-> "U32", format |-> "FIX2", registers |-> <<0, 1>>] >>

\* data.datasets[1:] after readImportFile
ImportedDatasets == [i \in 1..NDesc |-> Rows[((i - 1) % Len(Rows)) + 1]]

\* ------------------------------------------------------------------- helpers
Ids(buffer) == [j \in 1..Len(buffer) |-> buffer[j].id]

\* positions inside runCommunication (pollTargetData and the threshold flush included)
RunPcs == {"rc_connect", "poll_read", "poll_append", "poll_check", "poll_swap",
           "poll_clear", "lcd_write", "rc_close"}
WritePcs == {"w_open", "w_header", "w_wb_out", "w_wb_clear", "w_db_out", "w_db_clear"}

InRun(t) == pc[t] \in RunPcs \/ (pc[t] \in WritePcs /\ ret[t] = "poll")

\* where a thread goes when runCommunication returns
AfterRun(t) ==
    IF t # 0 THEN "done"
    ELSE CASE mode = "gui"    -> "idle"
           [] mode = "single" -> "stop_cancel"
           [] OTHER           -> "main_end"

\* os.stat(data.logfilename).st_size: the log file starts empty; a header or a
\* row makes it non-empty
st_size ==
    IF header = <<>> /\ (\A j \in 1..Len(logfile) : logfile[j] = <<>>) THEN 0 ELSE 1

\* where a thread goes when writeLoggerDataFile returns: to its caller, which
\* is pollTargetData, stopCommunication called by a stop command,
\* stopCommunication called by cleanOnExit, cleanOnExit itself, or the
\* --logfile block of the command line section
AfterWrite(t) ==
    CASE ret[t] = "poll"       -> "rc_close"
      [] ret[t] = "init"       -> "cl_loginterval"
      [] ret[t] = "exit_stop"  -> "ce_check"
      [] ret[t] = "exit_flush" -> "exited"
      [] OTHER                 -> IF mode = "gui" THEN "idle" ELSE "exit"

NextTimer == Cardinality({k \in Timers : timer[k] # "none"}) + 1

Config == <<mode, logfilename, logmaxbuffer, datasets, loginterval>>
StopGhosts == <<stopped, caught, stopsnap, stopflush, exitflush>>
Polling == <<datavector, databuffer, datawritebuffer, aliased, commtimer, timer, idx, ret,
             button, nTicks, nSamples, logfile, header, errormessages, readerr, client, slice>>

\* ---------------------------------------------------------------------- Init
LogBufValues == (1..MaxBuf) \cup {DefaultLogMaxBuffer}

InitData ==
    /\ datavector = <<>>
    /\ databuffer = <<>>
    /\ datawritebuffer = <<>>
    /\ aliased = FALSE
    /\ commtimer = 0
    /\ timer = [k \in Timers |-> "none"]
    /\ idx = [t \in Threads |-> 0]
    /\ ret = [t \in Threads |-> "poll"]
    /\ button = "start"
    /\ nTicks = 0
    /\ nSamples = 0
    /\ logfile = <<>>
    /\ header = <<>>
    /\ errormessages = 0
    /\ stopped = FALSE
    /\ caught = {}
    /\ stopsnap = {}
    /\ stopflush = "none"
    /\ readerr = [t \in Threads |-> 0]
    /\ client = [t \in Threads |-> "none"]
    /\ exitflush = "none"
    /\ slice = [t \in Threads |-> <<>>]
    /\ loginterval = DefaultLogInterval

\* the GUI waits for the user; the command line section has processed its
\* options and is about to start polling
InitState ==
    /\ InitData
    /\ pc = [t \in Threads |-> IF t = 0 THEN (IF mode = "gui" THEN "idle" ELSE "main") ELSE "none"]

Init ==
    /\ mode \in {"gui", "cli", "single"}
    /\ logfilename \in {"None", "file"}
    /\ logmaxbuffer \in LogBufValues
    /\ datasets = ImportedDatasets
    /\ InitState

\* ------------------------------------------------------------ poll scheduler
\* Gui.startCommunication: the start button calls inout.runCommunication on the main thread
startCommunication ==
    /\ mode = "gui" /\ pc[0] = "idle" /\ button = "start"
    /\ pc' = [pc EXCEPT ![0] = "rc_connect"]
    /\ nTicks' = nTicks + 1
    /\ stopped' = FALSE
    /\ caught' = {}
    /\ UNCHANGED <<Config, datavector, databuffer, datawritebuffer, aliased, commtimer,
                   timer, idx, ret, button, nSamples, logfile, header, errormessages, stopsnap, stopflush, exitflush,
                   readerr, client, slice>>

\* command line section: "start polling data, single poll first"
CommandLineStart ==
    /\ mode # "gui" /\ pc[0] = "main"
    /\ pc' = [pc EXCEPT ![0] = "rc_connect"]
    /\ nTicks' = nTicks + 1
    /\ UNCHANGED <<Config, datavector, databuffer, datawritebuffer, aliased, commtimer,
                   timer, idx, ret, button, nSamples, logfile, header, errormessages, StopGhosts, readerr, client, slice>>

\* threading.Timer.run: the interval has passed and cancel() was not called
TimerFire(k) ==
    /\ timer[k] = "waiting"
    /\ timer' = [timer EXCEPT ![k] = "running"]
    /\ pc' = [pc EXCEPT ![k] = "rc_connect"]
    /\ nTicks' = nTicks + 1
    /\ UNCHANGED <<Config, datavector, databuffer, datawritebuffer, aliased, commtimer,
                   idx, ret, button, nSamples, logfile, header, errormessages, StopGhosts, readerr, client, slice>>

\* runCommunication up to the first read: the client connects, pollTargetData
\* empties data.datavector and its for statement copies data.datasets[1:]
runCommunication(t) ==
    /\ pc[t] = "rc_connect"
    /\ client' = [client EXCEPT ![t] = "open"]
    /\ datavector' = <<>>
    /\ idx' = [idx EXCEPT ![t] = 1]
    /\ readerr' = [readerr EXCEPT ![t] = 0]
    /\ slice' = [slice EXCEPT ![t] = datasets]
    /\ pc' = [pc EXCEPT ![t] = IF Len(datasets) = 0 THEN "poll_append" ELSE "poll_read"]
    /\ UNCHANGED <<Config, databuffer, datawritebuffer, aliased, commtimer, timer, ret,
                   button, nTicks, nSamples, logfile, header, errormessages, StopGhosts>>

\* where a thread goes when an exception leaves runCommunication: a Timer
\* thread ends, Tk reports the error of a callback and goes on, the script dies
AfterRaise(t) ==
    IF t # 0 THEN "done"
    ELSE IF mode = "gui" THEN "idle" ELSE "exit"

\* runCommunication when the target cannot be reached.  self.client.connect()
\* either returns False, which runCommunication does not look at, or raises;
\* the except branch calls showerror, which shows the message in GUI mode and
\* itself raises without a display (the exception then leaves runCommunication).
\* Unless it raised, pollTargetData is called all the same.
runCommunicationConnectFails(t) ==
    /\ pc[t] = "rc_connect"
    /\ \E raised \in BOOLEAN :
          IF raised /\ mode # "gui"
          THEN /\ client' = [client EXCEPT ![t] = "failed"]
               /\ pc' = [pc EXCEPT ![t] = AfterRaise(t)]
               /\ timer' = IF t # 0 THEN [timer EXCEPT ![t] = "finished"] ELSE timer
               /\ UNCHANGED <<datavector, idx, slice>>
          ELSE /\ client' = [client EXCEPT ![t] = IF raised THEN "reported" ELSE "failed"]
               /\ datavector' = <<>>
               /\ idx' = [idx EXCEPT ![t] = 1]
               /\ slice' = [slice EXCEPT ![t] = datasets]
               /\ pc' = [pc EXCEPT ![t] = IF Len(datasets) = 0 THEN "poll_append" ELSE "poll_read"]
               /\ UNCHANGED timer
    /\ readerr' = [readerr EXCEPT ![t] = 0]
    /\ UNCHANGED <<Config, databuffer, datawritebuffer, aliased, commtimer, ret,
                   button, nTicks, nSamples, logfile, header, errormessages, StopGhosts>>

\* one pass of the loop of pollTargetData: read, decode, format, append to
\* data.datavector.  A client whose connect failed connects again for the read.
pollTargetDataRead(t) ==
    /\ pc[t] = "poll_read"
    /\ ~IsRaise(PollRow(slice[t][idx[t]]))
    /\ datavector' = Append(datavector, PollRow(slice[t][idx[t]]))
    /\ client' = [client EXCEPT ![t] = "open"]
    /\ idx' = [idx EXCEPT ![t] = idx[t] + 1]
    /\ pc' = [pc EXCEPT ![t] = IF idx[t] >= Len(slice[t]) THEN "poll_append" ELSE "poll_read"]
    /\ UNCHANGED <<Config, databuffer, datawritebuffer, aliased, commtimer, timer, ret,
                   button, nTicks, nSamples, logfile, header, errormessages, StopGhosts, readerr, slice>>

\* client.read_input_registers raises (or returns no registers): nothing in
\* pollTargetData or runCommunication catches it
pollTargetDataReadFails(t) ==
    /\ pc[t] = "poll_read"
    /\ readerr' = [readerr EXCEPT ![t] = idx[t]]
    /\ pc' = [pc EXCEPT ![t] = AfterRaise(t)]
    /\ timer' = IF t # 0 THEN [timer EXCEPT ![t] = "finished"] ELSE timer
    /\ UNCHANGED <<Config, datavector, databuffer, datawritebuffer, aliased, commtimer,
                   idx, ret, button, nTicks, nSamples, logfile, header, errormessages, StopGhosts, client, slice>>

\* the loop left by an exception, with the values collected so far stamped
\* and appended on the way out
pollTargetDataRaises_appends(t) ==
    /\ pc[t] = "poll_read"
    /\ IsRaise(PollRow(slice[t][idx[t]]))
    /\ readerr' = [readerr EXCEPT ![t] = idx[t]]
    /\ nSamples' = nSamples + 1
    /\ databuffer' = Append(databuffer, [id |-> nSamples + 1, vec |-> datavector])
    /\ datawritebuffer' = IF aliased THEN databuffer' ELSE datawritebuffer
    /\ pc' = [pc EXCEPT ![t] = AfterRaise(t)]
    /\ timer' = IF t # 0 THEN [timer EXCEPT ![t] = "finished"] ELSE timer
    /\ UNCHANGED <<Config, datavector, aliased, commtimer,
                   idx, ret, button, nTicks, logfile, header, errormessages, StopGhosts, client, slice>>

\* the lookup of the register count, the decoding or the formatting of the
\* row raises: nothing in pollTargetData or runCommunication catches it
pollTargetDataRaises(t) ==
    /\ pc[t] = "poll_read"
    /\ IsRaise(PollRow(slice[t][idx[t]]))
    /\ readerr' = [readerr EXCEPT ![t] = idx[t]]
    /\ pc' = [pc EXCEPT ![t] = AfterRaise(t)]
    /\ timer' = IF t # 0 THEN [timer EXCEPT ![t] = "finished"] ELSE timer
    /\ UNCHANGED <<Config, datavector, databuffer, datawritebuffer, aliased, commtimer,
                   idx, ret, button, nTicks, nSamples, logfile, header, errormessages, StopGhosts, client, slice>>

\* gui.updateLoggerDisplay(), called by pollTargetData when gui_active is 1,
\* raises: the thread of a Timer calls into Tk (winfo_children, destroy, Label)
\* while the main loop is busy or after the window was closed.  Nothing in
\* pollTargetData or runCommunication catches the exception.
updateLoggerDisplayRaises(t) ==
    /\ pc[t] = "poll_append"
    /\ mode = "gui" /\ t # 0
    /\ readerr' = [readerr EXCEPT ![t] = Len(slice[t]) + 1]
    /\ pc' = [pc EXCEPT ![t] = AfterRaise(t)]
    /\ timer' = [timer EXCEPT ![t] = "finished"]
    /\ UNCHANGED <<Config, datavector, databuffer, datawritebuffer, aliased, commtimer,
                   idx, ret, button, nTicks, nSamples, logfile, header, errormessages, StopGhosts, client, slice>>

\* if (gui_active == 1): gui.updateLoggerDisplay(), which returns;
\* stampedvector = [time] + data.datavector; data.databuffer.append(stampedvector)
pollTargetDataAppend(t) ==
    /\ pc[t] = "poll_append"
    /\ nSamples' = nSamples + 1
    /\ databuffer' = Append(databuffer, [id |-> nSamples + 1, vec |-> datavector])
    /\ datawritebuffer' = IF aliased THEN databuffer' ELSE datawritebuffer
    /\ pc' = [pc EXCEPT ![t] = "poll_check"]
    /\ UNCHANGED <<Config, datavector, aliased, commtimer, timer, idx, ret, button,
                   nTicks, logfile, header, errormessages, StopGhosts, readerr, client, slice>>

\* the threshold test with > for >=: the flush comes one sample late
Threshold_strict(buffer) == Len(buffer) > logmaxbuffer

\* if (len(data.databuffer) >= data.logmaxbuffer)
Threshold(buffer) == Len(buffer) >= logmaxbuffer

\* the threshold test on the wrong list (the write batch): no flush is triggered
pollTargetDataCheck_wronglist(t) ==
    /\ pc[t] = "poll_check"
    /\ pc' = [pc EXCEPT ![t] = IF Threshold(datawritebuffer) THEN "poll_swap" ELSE "rc_close"]
    /\ UNCHANGED <<Config, datavector, databuffer, datawritebuffer, aliased, commtimer,
                   timer, idx, ret, button, nTicks, nSamples, logfile, header, errormessages, StopGhosts, readerr, client, slice>>

pollTargetDataCheck(t) ==
    /\ pc[t] = "poll_check"
    /\ pc' = [pc EXCEPT ![t] = IF Threshold(databuffer) THEN "poll_swap" ELSE "rc_close"]
    /\ UNCHANGED <<Config, datavector, databuffer, datawritebuffer, aliased, commtimer,
                   timer, idx, ret, button, nTicks, nSamples, logfile, header, errormessages, StopGhosts, readerr, client, slice>>

\* data.datawritebuffer = data.databuffer: both names now refer to one list
pollTargetDataSwap(t) ==
    /\ pc[t] = "poll_swap"
    /\ datawritebuffer' = databuffer
    /\ aliased' = TRUE
    /\ pc' = [pc EXCEPT ![t] = "poll_clear"]
    /\ UNCHANGED <<Config, datavector, databuffer, commtimer, timer, idx, ret, button,
                   nTicks, nSamples, logfile, header, errormessages, StopGhosts, readerr, client, slice>>

\* the swap without "data.databuffer = []": the flushed samples stay buffered
pollTargetDataClear_keeps(t) ==
    /\ pc[t] = "poll_clear"
    /\ ret' = [ret EXCEPT ![t] = "poll"]
    /\ pc' = [pc EXCEPT ![t] = "w_open"]
    /\ UNCHANGED <<Config, datavector, databuffer, datawritebuffer, aliased, commtimer,
                   timer, idx, button, nTicks, nSamples, logfile, header, errormessages, StopGhosts, readerr, client, slice>>

\* data.databuffer = []; self.writeLoggerDataFile()
pollTargetDataClear(t) ==
    /\ pc[t] = "poll_clear"
    /\ databuffer' = <<>>
    /\ aliased' = FALSE
    /\ ret' = [ret EXCEPT ![t] = "poll"]
    /\ pc' = [pc EXCEPT ![t] = "w_open"]
    /\ UNCHANGED <<Config, datavector, datawritebuffer, commtimer, timer, idx, button,
                   nTicks, nSamples, logfile, header, errormessages, StopGhosts, readerr, client, slice>>

\* client.close(); self.commtimer = Timer(...); self.commtimer.start(); return
runCommunicationTimer(t) ==
    /\ pc[t] = "rc_close"
    /\ NextTimer \in Timers
    /\ client' = [client EXCEPT ![t] = "closed"]
    /\ commtimer' = NextTimer
    /\ timer' = [k \in Timers |-> IF k = NextTimer THEN "waiting"
                                  ELSE IF k = t THEN "finished" ELSE timer[k]]
    /\ pc' = [pc EXCEPT ![t] = AfterRun(t)]
    /\ button' = IF t = 0 /\ mode = "gui" THEN "stop" ELSE button
    /\ UNCHANGED <<Config, datavector, databuffer, datawritebuffer, aliased, idx, ret,
                   nTicks, nSamples, logfile, header, errormessages, StopGhosts, readerr, slice>>

\* Inout.stopCommunication up to the call of writeLoggerDataFile: the stop
\* button in GUI mode, the --single branch of the command line section, the
\* try block of cleanOnExit
stopCommunication ==
    /\ \/ mode = "gui" /\ pc[0] = "idle" /\ button = "stop"
       \/ pc[0] = "stop_cancel"
       \/ pc[0] = "ce_stop"
    /\ commtimer # 0
    /\ timer' = [timer EXCEPT ![commtimer] = IF @ = "waiting" THEN "cancelled" ELSE @]
    /\ ret' = [ret EXCEPT ![0] = IF pc[0] = "ce_stop" THEN "exit_stop" ELSE "stop"]
    /\ pc' = [pc EXCEPT ![0] = "w_open"]
    /\ IF pc[0] = "ce_stop"
       THEN UNCHANGED StopGhosts
       ELSE /\ stopped' = TRUE
            /\ caught' = {t \in Threads : InRun(t)}
            /\ stopsnap' = 1..nSamples
            /\ stopflush' = "none"
            /\ UNCHANGED exitflush
    /\ UNCHANGED <<Config, datavector, databuffer, datawritebuffer, aliased, commtimer,
                   idx, button, nTicks, nSamples, logfile, header, errormessages, readerr, client, slice>>

\* ---------------------------------------------------------------- log writer
\* writeLoggerDataFile up to the choice of the list to write: the file is
\* opened (when a file name is set) and len(data.datawritebuffer) > 0 is tested
writeLoggerDataFile(t) ==
    /\ pc[t] = "w_open"
    /\ pc' = [pc EXCEPT ![t] = IF logfilename = "file" /\ st_size = 0 THEN "w_header"
                               ELSE IF Len(datawritebuffer) > 0 THEN "w_wb_out" ELSE "w_db_out"]
    /\ UNCHANGED <<Config, datavector, databuffer, datawritebuffer, aliased, commtimer,
                   timer, idx, ret, button, nTicks, nSamples, logfile, header, errormessages, StopGhosts, readerr, client, slice>>

\* open(data.logfilename, 'a') raises: the error is shown and the function returns
writeLoggerDataFileOpenFails(t) ==
    /\ pc[t] = "w_open"
    /\ logfilename = "file"
    /\ pc' = [pc EXCEPT ![t] = AfterWrite(t)]
    /\ button' = IF ret[t] = "stop" /\ mode = "gui" THEN "start" ELSE button
    /\ stopflush' = IF ret[t] = "stop" THEN "failed" ELSE stopflush
    /\ exitflush' = IF ret[t] \in {"exit_stop", "exit_flush"} THEN "failed" ELSE exitflush
    /\ UNCHANGED <<Config, datavector, databuffer, datawritebuffer, aliased, commtimer,
                   timer, idx, ret, nTicks, nSamples, logfile, header, errormessages, stopped, caught, stopsnap, readerr, client, slice>>

\* the file was empty when os.stat looked at it: the descriptor table, the
\* separator and the column headings are appended to it, and then the list
\* to write is chosen
writeHeader(t) ==
    /\ pc[t] = "w_header"
    /\ header' = Append(header, Len(logfile))
    /\ pc' = [pc EXCEPT ![t] = IF Len(datawritebuffer) > 0 THEN "w_wb_out" ELSE "w_db_out"]
    /\ UNCHANGED <<Config, datavector, databuffer, datawritebuffer, aliased, commtimer,
                   timer, idx, ret, button, nTicks, nSamples, logfile, errormessages, StopGhosts, readerr, client, slice>>

\* print(data.datawritebuffer) / logwriter.writerows(data.datawritebuffer)
writeBatch(t) ==
    /\ pc[t] = "w_wb_out"
    /\ logfile' = Append(logfile, Ids(datawritebuffer))
    /\ pc' = [pc EXCEPT ![t] = "w_wb_clear"]
    /\ UNCHANGED <<Config, datavector, databuffer, datawritebuffer, aliased, commtimer,
                   timer, idx, ret, button, nTicks, nSamples, header, errormessages, StopGhosts, readerr, client, slice>>

\* data.datawritebuffer = []; return
clearBatch(t) ==
    /\ pc[t] = "w_wb_clear"
    /\ datawritebuffer' = <<>>
    /\ aliased' = FALSE
    /\ pc' = [pc EXCEPT ![t] = AfterWrite(t)]
    /\ button' = IF ret[t] = "stop" /\ mode = "gui" THEN "start" ELSE button
    /\ stopflush' = IF ret[t] = "stop" THEN "written" ELSE stopflush
    /\ exitflush' = IF ret[t] \in {"exit_stop", "exit_flush"} /\ exitflush # "failed"
                    THEN "written" ELSE exitflush
    /\ UNCHANGED <<Config, datavector, databuffer, commtimer, timer, idx, ret, nTicks,
                   nSamples, logfile, header, errormessages, stopped, caught, stopsnap, readerr, client, slice>>

\* print(data.databuffer) / logwriter.writerows(data.databuffer)
writeBuffer(t) ==
    /\ pc[t] = "w_db_out"
    /\ logfile' = Append(logfile, Ids(databuffer))
    /\ pc' = [pc EXCEPT ![t] = "w_db_clear"]
    /\ UNCHANGED <<Config, datavector, databuffer, datawritebuffer, aliased, commtimer,
                   timer, idx, ret, button, nTicks, nSamples, header, errormessages, StopGhosts, readerr, client, slice>>

\* console branch after print(data.databuffer): with exactly one sample in the
\* buffer the print statement of line 220 indexes data.datasets[1] and
\* data.databuffer[0][1], which a table without rows or a sample without
\* values does not have
ConsoleLineRaises ==
    /\ logfilename = "None"
    /\ Len(databuffer) = 1
    /\ (Len(datasets) = 0 \/ Len(databuffer[1].vec) = 0)

\* the IndexError leaves writeLoggerDataFile before data.databuffer = []: it
\* ends the callback of the stop button before the button is reconfigured, is
\* caught by the try of cleanOnExit, or ends the atexit handler or the thread
writeLoggerDataFileRaises(t) ==
    /\ pc[t] = "w_db_clear"
    /\ ConsoleLineRaises
    /\ pc' = [pc EXCEPT ![t] = CASE ret[t] = "exit_stop"  -> "ce_check"
                                  [] ret[t] = "exit_flush" -> "exited"
                                  [] OTHER                 -> AfterRaise(t)]
    /\ timer' = IF t # 0 THEN [timer EXCEPT ![t] = "finished"] ELSE timer
    /\ stopflush' = IF ret[t] = "stop" THEN "failed" ELSE stopflush
    /\ exitflush' = IF ret[t] \in {"exit_stop", "exit_flush"} THEN "failed" ELSE exitflush
    /\ UNCHANGED <<Config, datavector, databuffer, datawritebuffer, aliased, commtimer,
                   idx, ret, button, nTicks, nSamples, logfile, header, errormessages, stopped, caught, stopsnap,
                   readerr, client, slice>>

\* data.databuffer = []; return
clearBuffer(t) ==
    /\ pc[t] = "w_db_clear"
    /\ ~ConsoleLineRaises
    /\ databuffer' = <<>>
    /\ aliased' = FALSE
    /\ pc' = [pc EXCEPT ![t] = AfterWrite(t)]
    /\ button' = IF ret[t] = "stop" /\ mode = "gui" THEN "start" ELSE button
    /\ stopflush' = IF ret[t] = "stop" THEN "written" ELSE stopflush
    /\ exitflush' = IF ret[t] \in {"exit_stop", "exit_flush"} /\ exitflush # "failed"
                    THEN "written" ELSE exitflush
    /\ UNCHANGED <<Config, datavector, datawritebuffer, commtimer, timer, idx, ret, nTicks,
                   nSamples, logfile, header, errormessages, stopped, caught, stopsnap, readerr, client, slice>>

\* ------------------------------------------------------------- program exit
\* The interpreter shuts down: the script has ended or died, or the window
\* was closed (mainloop returns, exit()).  Python first waits for every
\* thread that is not a daemon, so no Timer is waiting or running when the
\* atexit handler starts.  Without a commtimer attribute the call of
\* stopCommunication raises at once and the except branch goes on.
cleanOnExit ==
    /\ pc[0] \in {"idle", "main_end", "exit"}
    /\ \A k \in Timers : timer[k] \notin {"waiting", "running"}
    /\ pc' = [pc EXCEPT ![0] = IF commtimer = 0 THEN "ce_check" ELSE "ce_stop"]
    /\ UNCHANGED <<Config, datavector, databuffer, datawritebuffer, aliased, commtimer,
                   timer, idx, ret, button, nTicks, nSamples, logfile, header, errormessages, StopGhosts, readerr, client, slice>>

\* if len(data.databuffer): self.writeLoggerDataFile()
cleanOnExitCheck ==
    /\ pc[0] = "ce_check"
    /\ pc' = [pc EXCEPT ![0] = IF Len(databuffer) > 0 THEN "w_open" ELSE "exited"]
    /\ ret' = [ret EXCEPT ![0] = IF Len(databuffer) > 0 THEN "exit_flush" ELSE @]
    /\ UNCHANGED <<Config, datavector, databuffer, datawritebuffer, aliased, commtimer,
                   timer, idx, button, nTicks, nSamples, logfile, header, errormessages, StopGhosts, readerr, client, slice>>

\* ------------------------------------------------------------ configuration
\* Inout.readImportFile: the settings of the ini file replace the current ones;
\* neither 'logger interval' nor 'log buffer' is compared with anything, and
\* data.datasets becomes a new list
readImportFile(interval, name, buffer) ==
    /\ loginterval' = interval
    /\ logfilename' = name
    /\ logmaxbuffer' = buffer
    /\ datasets' = ImportedDatasets
    /\ UNCHANGED mode

\* Gui.displaySettings: "Re-Read Configuration", "Import Configuration File"
\* and the start of the GUI with --inifile
displaySettings(interval, name, buffer) ==
    /\ mode = "gui" /\ pc[0] = "idle"
    /\ readImportFile(interval, name, buffer)
    /\ UNCHANGED <<Polling, pc, StopGhosts>>

\* Gui.updateCommSettings with a number in the logger interval field: a value
\* below 1 is reported and dropped
updateCommSettings(check_loginterval) ==
    /\ mode = "gui" /\ pc[0] = "idle"
    /\ loginterval' = IF check_loginterval < 1 THEN loginterval ELSE check_loginterval
    /\ UNCHANGED <<mode, logfilename, logmaxbuffer, datasets, Polling, pc, StopGhosts>>

\* command line section, "read the configuration file": with --inifile,
\* checkImportFile calls readImportFile
CommandLineIniFile(inifile, interval, name, buffer) ==
    /\ mode # "gui" /\ pc[0] = "cl_inifile"
    /\ IF inifile THEN readImportFile(interval, name, buffer) ELSE UNCHANGED Config
    /\ pc' = [pc EXCEPT ![0] = "cl_logfile"]
    /\ UNCHANGED <<Polling, StopGhosts>>

\* command line section, "get log file name and try to access it": with
\* --logfile the name is set and writeLoggerDataFile is called once
CommandLineLogfile(given) ==
    /\ pc[0] = "cl_logfile"
    /\ logfilename' = IF given THEN "file" ELSE logfilename
    /\ ret' = [ret EXCEPT ![0] = IF given THEN "init" ELSE @]
    /\ pc' = [pc EXCEPT ![0] = IF given THEN "w_open" ELSE "cl_loginterval"]
    /\ UNCHANGED <<mode, logmaxbuffer, datasets, loginterval, datavector, databuffer,
                   datawritebuffer, aliased, commtimer, timer, idx, button, nTicks, nSamples,
                   logfile, header, errormessages, readerr, client, slice, StopGhosts>>

\* command line section, "get log interval value and check for valid value":
\* a value below 1 prints the error and exits
CommandLineLogInterval(given, check_loginterval) ==
    /\ pc[0] = "cl_loginterval"
    /\ loginterval' = IF given /\ check_loginterval >= 1 THEN check_loginterval ELSE loginterval
    /\ pc' = [pc EXCEPT ![0] = IF given /\ check_loginterval < 1 THEN "exit" ELSE "cl_logbuffer"]
    /\ UNCHANGED <<mode, logfilename, logmaxbuffer, datasets, Polling, StopGhosts>>

\* command line section, "get log buffer size and check for valid value"
CommandLineLogBuffer(given, check_logbuffer) ==
    /\ pc[0] = "cl_logbuffer"
    /\ logmaxbuffer' = IF given /\ check_logbuffer >= 1 THEN check_logbuffer ELSE logmaxbuffer
    /\ pc' = [pc EXCEPT ![0] = IF given /\ check_logbuffer < 1 THEN "exit" ELSE "cl_ip"]
    /\ UNCHANGED <<mode, logfilename, loginterval, datasets, Polling, StopGhosts>>

\* command line section, "get all values for single-value reads": with --ip
\* (the usage without --inifile) one row is appended to the header row
CommandLineRow(thisrow) ==
    /\ pc[0] = "cl_ip"
    /\ datasets' = IF Len(datasets) = 0 THEN <<thisrow>> ELSE datasets
    /\ pc' = [pc EXCEPT ![0] = "main"]
    /\ UNCHANGED <<mode, logfilename, logmaxbuffer, loginterval, Polling, StopGhosts>>

\* counter = data.datasets.index(thisdata) in displayDatasets: the buttons of
\* a row are bound to the first position that holds an equal row
Counter(i) ==
    CHOOSE j \in 1..Len(datasets) :
        datasets[j] = datasets[i] /\ \A k \in 1..(j - 1) : datasets[k] # datasets[i]

\* Gui.moveDatasetUp, bound to the row's button when counter > 1
moveDatasetUp(i) ==
    /\ mode = "gui" /\ pc[0] = "idle"
    /\ i \in 1..Len(datasets) /\ Counter(i) > 1
    /\ datasets' = [datasets EXCEPT ![Counter(i)] = datasets[Counter(i) - 1],
                                    ![Counter(i) - 1] = datasets[Counter(i)]]
    /\ UNCHANGED <<mode, logfilename, logmaxbuffer, loginterval, Polling, pc, StopGhosts>>

\* Gui.moveDatasetDown, bound to the row's button unless the row is the last
moveDatasetDown(i) ==
    /\ mode = "gui" /\ pc[0] = "idle"
    /\ i \in 1..Len(datasets) /\ Counter(i) # Len(datasets)
    /\ datasets' = [datasets EXCEPT ![Counter(i)] = datasets[Counter(i) + 1],
                                    ![Counter(i) + 1] = datasets[Counter(i)]]
    /\ UNCHANGED <<mode, logfilename, logmaxbuffer, loginterval, Polling, pc, StopGhosts>>

\* Gui.deleteDataset: del data.datasets[i]
deleteDataset(i) ==
    /\ mode = "gui" /\ pc[0] = "idle"
    /\ i \in 1..Len(datasets)
    /\ datasets' = [j \in 1..(Len(datasets) - 1) |->
                        IF j < Counter(i) THEN datasets[j] ELSE datasets[j + 1]]
    /\ UNCHANGED <<mode, logfilename, logmaxbuffer, loginterval, Polling, pc, StopGhosts>>

\* Gui.addNewDataset -> Inout.addDataset: data.datasets.append(inputdata)
addDataset(inputdata) ==
    /\ mode = "gui" /\ pc[0] = "idle"
    /\ Len(datasets) < NDesc
    /\ datasets' = Append(datasets, inputdata)
    /\ UNCHANGED <<mode, logfilename, logmaxbuffer, loginterval, Polling, pc, StopGhosts>>

\* ---------------------------------------------------------------------- Next
Cycle(t) ==
    \/ runCommunication(t)
    \/ pollTargetDataRead(t)
    \/ pollTargetDataAppend(t)
    \/ pollTargetDataCheck(t)
    \/ pollTargetDataSwap(t)
    \/ pollTargetDataClear(t)
    \/ runCommunicationTimer(t)

Write(t) ==
    \/ writeLoggerDataFile(t)
    \/ writeHeader(t)
    \/ writeBatch(t)
    \/ clearBatch(t)
    \/ writeBuffer(t)
    \/ clearBuffer(t)

Next ==
    \/ nTicks < MaxTicks /\ startCommunication
    \/ nTicks < MaxTicks /\ CommandLineStart
    \/ \E k \in Timers : nTicks < MaxTicks /\ TimerFire(k)
    \/ \E t \in Threads : Cycle(t)
    \/ \E t \in Threads : Write(t)
    \/ \E t \in Threads : runCommunicationConnectFails(t)
    \/ \E t \in Threads : pollTargetDataReadFails(t)
    \/ \E t \in Threads : writeLoggerDataFileOpenFails(t)
    \/ \E t \in Threads : updateLoggerDisplayRaises(t)
    \/ stopCommunication
    \/ cleanOnExit
    \/ cleanOnExitCheck

Spec == Init /\ [][Next]_vars

\* ------------------------------------------------ editing the dataset table
\* GUI mode, started with or without --inifile: the start button is pressed
\* once and the Timer threads keep polling while the user edits the dataset
\* table (every row added is one the table does not hold) and re-reads the
\* configuration file.  Output goes to the console and the buffer threshold
\* is the default.
InitEdit ==
    /\ mode = "gui"
    /\ logfilename = "None"
    /\ logmaxbuffer = DefaultLogMaxBuffer
    /\ datasets \in {<<>>, ImportedDatasets}
    /\ InitState

NextEdit ==
    \/ nTicks < MaxEditTicks /\ startCommunication
    \/ \E k \in Timers : nTicks < MaxEditTicks /\ TimerFire(k)
    \/ \E t \in Threads : runCommunication(t)
    \/ \E t \in Threads : pollTargetDataRead(t)
    \/ \E t \in Threads : pollTargetDataAppend(t)
    \/ \E t \in Threads : pollTargetDataCheck(t)
    \/ \E t \in Threads : runCommunicationTimer(t)
    \/ \E i \in 1..NDesc : moveDatasetUp(i)
    \/ \E i \in 1..NDesc : moveDatasetDown(i)
    \/ \E i \in 1..NDesc : deleteDataset(i)
    \/ \E i \in 1..Len(Rows) : (\A j \in 1..Len(datasets) : datasets[j] # Rows[i]) /\ addDataset(Rows[i])
    \/ displaySettings(DefaultLogInterval, "None", DefaultLogMaxBuffer)

SpecEdit == InitEdit /\ [][NextEdit]_vars

\* ------------------------------------------------------ settings and polling
\* The program from its construction on: the command line section reads the
\* ini file and the options and then polls; the GUI starts with the header
\* row only, the user reads a configuration, edits the logger interval and
\* presses start once.  No read fails and the log file can be opened.
IniNumbers == {-1, 0, 1, 2}
OptionNumbers == {0, 1, 2}

InitConfig ==
    /\ mode \in {"gui", "cli"}
    /\ logfilename = "None"
    /\ logmaxbuffer = DefaultLogMaxBuffer
    /\ datasets = <<>>
    /\ InitData
    /\ pc = [t \in Threads |-> IF t = 0 THEN (IF mode = "gui" THEN "idle" ELSE "cl_inifile") ELSE "none"]

NextConfig ==
    \/ \E inifile \in BOOLEAN, interval \in IniNumbers, buffer \in IniNumbers, name \in {"None", "file"} :
          CommandLineIniFile(inifile, interval, name, buffer)
    \/ \E given \in BOOLEAN : CommandLineLogfile(given)
    \/ \E given \in BOOLEAN, check_loginterval \in OptionNumbers :
          CommandLineLogInterval(given, check_loginterval)
    \/ \E given \in BOOLEAN, check_logbuffer \in OptionNumbers :
          CommandLineLogBuffer(given, check_logbuffer)
    \/ \E i \in 1..Len(Rows) : CommandLineRow(Rows[i])
    \/ \E interval \in IniNumbers, buffer \in IniNumbers, name \in {"None", "file"} :
          displaySettings(interval, name, buffer)
    \/ \E check_loginterval \in OptionNumbers : updateCommSettings(check_loginterval)
    \/ nTicks < MaxTicks /\ startCommunication
    \/ nTicks < MaxTicks /\ CommandLineStart
    \/ \E k \in Timers : nTicks < MaxTicks /\ TimerFire(k)
    \/ \E t \in Threads : Cycle(t)
    \/ \E t \in Threads : Write(t)

SpecConfig == InitConfig /\ [][NextConfig]_vars

\* ------------------------------------------------------- abandoned cycles
\* GUI mode with console output: the imported table holds one row, or a second
\* one whose type is no key of data.moddatatype (the import checks nothing);
\* the user presses start and adds rows the loop body cannot handle (an S32
\* row the target answers with one word, a text row with a fixed-point
\* format); reads may fail as well.
UnknownTypeRow == [address |-> 30051, type |-> "U8", format |-> "RAW", registers |-> <<>>]

BadRows == << [address |-> 30769, type |-> "S32",   format |-> "RAW",  registers |-> <<1>>],
              [address |-> 30057, type |-> "STR32", format |-> "FIX1", registers |-> [j \in 1..16 |-> 16706]] >>

InitAbandon ==
    /\ mode = "gui"
    /\ logfilename = "None"
    /\ logmaxbuffer \in {1, DefaultLogMaxBuffer}
    /\ datasets \in {<<Rows[1]>>, <<Rows[1], UnknownTypeRow>>}
    /\ InitState

NextAbandon ==
    \/ nTicks < MaxTicks /\ startCommunication
    \/ \E k \in Timers : nTicks < MaxTicks /\ TimerFire(k)
    \/ \E t \in Threads : runCommunication(t)
    \/ \E t \in Threads : pollTargetDataRead(t)
    \/ \E t \in Threads : pollTargetDataReadFails(t)
    \/ \E t \in Threads : pollTargetDataRaises(t)
    \/ \E t \in Threads : pollTargetDataAppend(t)
    \/ \E t \in Threads : pollTargetDataCheck(t)
    \/ \E t \in Threads : pollTargetDataSwap(t)
    \/ \E t \in Threads : pollTargetDataClear(t)
    \/ \E t \in Threads : runCommunicationTimer(t)
    \/ \E t \in Threads : writeLoggerDataFile(t)
    \/ \E t \in Threads : writeBatch(t)
    \/ \E t \in Threads : clearBatch(t)
    \/ \E i \in 1..Len(BadRows) : addDataset(BadRows[i])

SpecAbandon == InitAbandon /\ [][NextAbandon]_vars

\* ------------------------------------------------------- flushes in the GUI
\* GUI mode: the table is the one of the configuration file or holds no row
\* (the program was started without a configuration, or the rows were
\* deleted); the user presses start and stop and closes the window.  The log
\* file may fail to open.  Stop is pressed while fewer than MaxTicks batches
\* were handed to the sink.
InitFlush ==
    /\ mode = "gui"
    /\ logfilename \in {"None", "file"}
    /\ logmaxbuffer \in {1, 2, DefaultLogMaxBuffer}
    /\ datasets \in {<<>>, <<Rows[1]>>}
    /\ InitState

NextFlush ==
    \/ nTicks < MaxTicks /\ startCommunication
    \/ \E k \in Timers : nTicks < MaxTicks /\ TimerFire(k)
    \/ \E t \in Threads : Cycle(t)
    \/ \E t \in Threads : Write(t)
    \/ \E t \in Threads : writeLoggerDataFileOpenFails(t)
    \/ \E t \in Threads : writeLoggerDataFileRaises(t)
    \/ Len(logfile) < MaxTicks /\ stopCommunication
    \/ cleanOnExit
    \/ cleanOnExitCheck

SpecFlush == InitFlush /\ [][NextFlush]_vars

\* ------------------------------------------------------------ LCD variant
\* src/USB_BACK/pymodmon/pymodmon_lcd.py: the same scheduler, a pollTargetData
\* that catches the exceptions of the read, and the LCD as the only sink (the
\* variable logfile holds what writeLoggerDataLCD has put on the display).
\* The table has the six rows the display layout expects: DC power, AC power,
\* DC voltage, daily yield, power from the grid, power to the grid.
LcdRows == << [address |-> 30773, type |-> "S32", format |-> "FIX0", registers |-> <<0, 1234>>],
              [address |-> 30775, type |-> "S32", format |-> "FIX0", registers |-> <<0, 1200>>],
              [address |-> 30771, type |-> "S32", format |-> "FIX2", registers |-> <<0, 32768>>],
              [address |-> 30535, type |-> "U32", format |-> "FIX0", registers |-> <<1, 0>>],
              [address |-> 30865, type |-> "U32", format |-> "FIX0", registers |-> <<0, 0>>],
              [address |-> 30867, type |-> "U32", format |-> "FIX0", registers |-> <<0, 1>>] >>

\* the table of the ini file; the same with the target answering "no value"
\* for the power from the grid; the same with a type in the second row that
\* is no key of data.moddatatype
LcdTables ==
    { LcdRows,
      [LcdRows EXCEPT ![5].registers = <<65535, 65535>>],
      [LcdRows EXCEPT ![2].type = "U8"] }

\* int(str(value)) of writeLoggerDataLCD: an integer or a text of digits
\* passes, None ("None") and a float ("12.5") raise ValueError
IntOfStr(value) ==
    /\ value.kind = "num"
    /\ value.div = 1
    /\ IsStr(value.val) => IsFloatText(value.val.str)

\* writeLoggerDataLCD raises: the sample has fewer than six values
\* (IndexError); int() of the AC power, the power from the grid or the power
\* to the grid, or of a DC voltage that is text, raises ValueError; in GUI
\* mode lcd_init has not run and the GPIO channels are not set up as outputs
writeLoggerDataLCD_raises(vector) ==
    \/ mode = "gui"
    \/ Len(vector) < 6
    \/ /\ Len(vector) >= 6
       /\ \/ vector[2].kind # "none" /\ ~IntOfStr(vector[2])
          \/ /\ vector[3].kind # "none"
             /\ IsStr(vector[3].val) /\ ~IsFloatText(vector[3].val.str)
          \/ ~IntOfStr(vector[5])
          \/ ~IntOfStr(vector[6])

\* Gui.startCommunication of the LCD variant calls inout.runCommunication
startCommunication_lcd == startCommunication

\* command line section of the LCD variant: "start polling data"
CommandLineStart_lcd == CommandLineStart

\* runCommunication of the LCD variant up to the first read
runCommunication_lcd(t) == runCommunication(t)

\* one pass of the loop of pollTargetData: the read returns, the registers
\* are decoded and formatted and the value is appended to data.datavector
pollTargetDataRead_lcd(t) ==
    /\ pc[t] = "poll_read"
    /\ ~IsRaise(PollRow(slice[t][idx[t]]))
    /\ datavector' = Append(datavector, PollRow(slice[t][idx[t]]))
    /\ idx' = [idx EXCEPT ![t] = idx[t] + 1]
    /\ pc' = [pc EXCEPT ![t] = IF idx[t] >= Len(slice[t]) THEN "poll_append" ELSE "poll_read"]
    /\ UNCHANGED <<Config, databuffer, datawritebuffer, aliased, commtimer, timer, ret,
                   button, nTicks, nSamples, logfile, header, errormessages, StopGhosts,
                   readerr, client, slice>>

\* the except branch re-raising after the message
pollTargetDataExcept_reraises(t) ==
    /\ pc[t] = "poll_read"
    /\ errormessages' = errormessages + 1
    /\ readerr' = [readerr EXCEPT ![t] = idx[t]]
    /\ pc' = [pc EXCEPT ![t] = AfterRaise(t)]
    /\ timer' = IF t # 0 THEN [timer EXCEPT ![t] = "finished"] ELSE timer
    /\ UNCHANGED <<Config, datavector, databuffer, datawritebuffer, aliased, commtimer,
                   idx, ret, button, nTicks, nSamples, logfile, header, StopGhosts,
                   client, slice>>

\* the try block around the read raises (the target does not answer, the type
\* is no key of data.moddatatype, the address is no number): the except
\* branch builds the message, shows or prints it, and returns to
\* runCommunication
pollTargetDataExcept(t) ==
    /\ pc[t] = "poll_read"
    /\ errormessages' = errormessages + 1
    /\ readerr' = [readerr EXCEPT ![t] = idx[t]]
    /\ pc' = [pc EXCEPT ![t] = "rc_close"]
    /\ UNCHANGED <<Config, datavector, databuffer, datawritebuffer, aliased, commtimer, timer,
                   idx, ret, button, nTicks, nSamples, logfile, header, StopGhosts,
                   client, slice>>

\* after the loop: the GUI table is updated when gui_active is 1, the vector
\* is appended to data.databuffer, data.datawritebuffer = data.databuffer,
\* data.databuffer = []
pollTargetDataAppend_lcd(t) ==
    /\ pc[t] = "poll_append"
    /\ nSamples' = nSamples + 1
    /\ datawritebuffer' = Append(databuffer, [id |-> nSamples + 1, vec |-> datavector])
    /\ databuffer' = <<>>
    /\ aliased' = FALSE
    /\ pc' = [pc EXCEPT ![t] = "lcd_write"]
    /\ UNCHANGED <<Config, datavector, commtimer, timer, idx, ret, button, nTicks, logfile,
                   header, errormessages, StopGhosts, readerr, client, slice>>

\* writeLoggerDataLCD: the four lines built from data.datawritebuffer[0] are
\* sent to the LCD; self.OLED_print without a call does nothing
writeLoggerDataLCD(t) ==
    /\ pc[t] = "lcd_write"
    /\ ~writeLoggerDataLCD_raises(datawritebuffer[1].vec)
    /\ logfile' = Append(logfile, <<datawritebuffer[1].id>>)
    /\ pc' = [pc EXCEPT ![t] = "rc_close"]
    /\ UNCHANGED <<Config, datavector, databuffer, datawritebuffer, aliased, commtimer, timer,
                   idx, ret, button, nTicks, nSamples, header, errormessages, StopGhosts,
                   readerr, client, slice>>

\* writeLoggerDataLCD raises: nothing in pollTargetData or runCommunication
\* catches it
writeLoggerDataLCDRaises(t) ==
    /\ pc[t] = "lcd_write"
    /\ writeLoggerDataLCD_raises(datawritebuffer[1].vec)
    /\ pc' = [pc EXCEPT ![t] = AfterRaise(t)]
    /\ timer' = IF t # 0 THEN [timer EXCEPT ![t] = "finished"] ELSE timer
    /\ UNCHANGED <<Config, datavector, databuffer, datawritebuffer, aliased, commtimer,
                   idx, ret, button, nTicks, nSamples, logfile, header, errormessages,
                   StopGhosts, readerr, client, slice>>

\* runCommunication of the LCD variant after pollTargetData has returned:
\* self.client.close(), then the Timer is created and started
runCommunicationTimer_lcd(t) == runCommunicationTimer(t)

InitLcd ==
    /\ mode \in {"gui", "cli"}
    /\ logfilename = "None"
    /\ logmaxbuffer = DefaultLogMaxBuffer
    /\ datasets \in LcdTables
    /\ InitState

NextLcd ==
    \/ nTicks < MaxTicks /\ startCommunication_lcd
    \/ nTicks < MaxTicks /\ CommandLineStart_lcd
    \/ \E k \in Timers : nTicks < MaxTicks /\ TimerFire(k)
    \/ \E t \in Threads : runCommunication_lcd(t)
    \/ \E t \in Threads : pollTargetDataRead_lcd(t)
    \/ \E t \in Threads : pollTargetDataExcept(t)
    \/ \E t \in Threads : pollTargetDataAppend_lcd(t)
    \/ \E t \in Threads : writeLoggerDataLCD(t)
    \/ \E t \in Threads : writeLoggerDataLCDRaises(t)
    \/ \E t \in Threads : runCommunicationTimer_lcd(t)

SpecLcd == InitLcd /\ [][NextLcd]_vars

\* ------------------------------------------------- polling without failures
\* Command line mode without --single: the script runs the first cycle, every
\* later cycle runs on the thread of the Timer its predecessor started; no
\* read fails and the log file, if one is named, can be opened.
InitPoll ==
    /\ mode = "cli"
    /\ logfilename \in {"None", "file"}
    /\ logmaxbuffer \in LogBufValues
    /\ datasets = ImportedDatasets
    /\ InitState

NextPoll ==
    \/ nTicks < MaxPolls /\ CommandLineStart
    \/ \E k \in Timers : nTicks < MaxPolls /\ TimerFire(k)
    \/ \E t \in Threads : runCommunication(t)
    \/ \E t \in Threads : pollTargetDataRead(t)
    \/ \E t \in Threads : pollTargetDataAppend(t)
    \/ \E t \in Threads : pollTargetDataCheck(t)
    \/ \E t \in Threads : pollTargetDataSwap(t)
    \/ \E t \in Threads : pollTargetDataClear(t)
    \/ \E t \in Threads : runCommunicationTimer(t)
    \/ \E t \in Threads : writeLoggerDataFile(t)
    \/ \E t \in Threads : writeHeader(t)
    \/ \E t \in Threads : writeBatch(t)
    \/ \E t \in Threads : clearBatch(t)

SpecPoll == InitPoll /\ [][NextPoll]_vars

\* ---------------------------------------------------- polling with failures
\* The same command line polling, with the failures the environment can
\* cause: a target that cannot be reached, a read that raises, a log file
\* that cannot be opened.
NextCli ==
    \/ NextPoll
    \/ \E t \in Threads : runCommunicationConnectFails(t)
    \/ \E t \in Threads : pollTargetDataReadFails(t)
    \/ \E t \in Threads : writeLoggerDataFileOpenFails(t)

SpecCli == InitPoll /\ [][NextCli]_vars

\* ------------------------------------------------- polling up to the exit
\* The same, with the shutdown of the interpreter once the chain of Timers
\* has ended.
NextExit ==
    \/ NextCli
    \/ \E t \in Threads : writeBuffer(t)
    \/ \E t \in Threads : clearBuffer(t)
    \/ stopCommunication
    \/ cleanOnExit
    \/ cleanOnExitCheck

SpecExit == InitPoll /\ [][NextExit]_vars

\* ------------------------------------------------ one cycle over one row
\* Command line mode with --ip/--addr/--type/--format: data.datasets holds
\* the one row built from the arguments.  The row and the register block the
\* target answers with range over the sets below; one poll cycle is run.
Words == {0, 1, 1234, 32768, 65535}

Types == {"S16", "U16", "S32", "U32", "U64", "STR32", "U8"}

Formats == {"RAW", "FIX0", "FIX1", "FIX2", "FIX3", "UTF8", "ENUM", "HEX"}

\* register words of texts: "AB", "12", "7 ", two blanks, two null bytes
TextWords == {16706, 12594, 14112, 8224, 0}

\* blocks of 16 words (15 and 17 as well): a text of up to two words, padded
TextBlocks ==
    {[j \in 1..n |-> IF j = 1 THEN first ELSE IF j = 2 THEN second ELSE pad] :
        n \in {15, 16, 17}, first \in TextWords, second \in TextWords, pad \in {0, 8224}}

\* the blocks a target may answer with: the count asked for, one word less,
\* one word more
Blocks(type) ==
    CASE type = "STR32" -> TextBlocks
      [] type \in DOMAIN moddatatype ->
            UNION {[1..n -> Words] : n \in {moddatatype[type] - 1, moddatatype[type], moddatatype[type] + 1}}
      [] OTHER -> {<<>>}

DecodeRows ==
    UNION {{[address |-> 30775, type |-> type, format |-> format, registers |-> block] :
               format \in Formats, block \in Blocks(type)} : type \in Types}

InitDecode ==
    /\ mode = "cli"
    /\ logfilename = "None"
    /\ logmaxbuffer = DefaultLogMaxBuffer
    /\ datasets \in {<<thisrow>> : thisrow \in DecodeRows}
    /\ InitState

NextDecode ==
    \/ nTicks < 1 /\ CommandLineStart
    \/ \E t \in Threads : runCommunication(t)
    \/ \E t \in Threads : pollTargetDataRead(t)
    \/ \E t \in Threads : pollTargetDataRaises(t)
    \/ \E t \in Threads : pollTargetDataAppend(t)
    \/ \E t \in Threads : pollTargetDataCheck(t)
    \/ \E t \in Threads : runCommunicationTimer(t)

SpecDecode == InitDecode /\ [][NextDecode]_vars

\* -------------------------------------------------------------------- claims
RECURSIVE Flat(_)
Flat(batches) == IF batches = <<>> THEN <<>> ELSE Flat(SubSeq(batches, 1, Len(batches) - 1)) \o batches[Len(batches)]

Count(id, ids) == Cardinality({j \in 1..Len(ids) : ids[j] = id})

Written(id) == Count(id, Flat(logfile))

\* a sample in the list both names refer to is held once
Held(id) == Count(id, Ids(databuffer)) + (IF aliased THEN 0 ELSE Count(id, Ids(datawritebuffer)))

FromTo(a, b) == [j \in 1..(b - a + 1) |-> a + j - 1]

NoCycleRunning == \A t \in Threads : ~InRun(t)

\* C1: in command line polling (one chain of cycles, no stop command),
\* whenever no cycle is executing every appended sample has been handed to
\* the sink exactly once or is still buffered: none is lost, none is written
\* twice, and the batches written plus the buffered samples count nSamples.
C1_NoLossNoDuplication ==
    NoCycleRunning =>
        /\ Len(Flat(logfile)) + Len(databuffer) + Len(datawritebuffer) = nSamples
        /\ \A id \in 1..nSamples : Written(id) + Held(id) = 1

\* C2: when a stop command has completed (its flush reached the sink) and no
\* cycle was executing when it was issued, every sample appended before the
\* stop has been handed to the sink and databuffer is empty.
C2_StopFlushesEverything ==
    (stopped /\ stopflush = "written" /\ caught = {}) =>
        /\ \A id \in stopsnap : Written(id) >= 1
        /\ databuffer = <<>>

\* C3: after a stop command has been issued and until the next start
\* command, no Timer fires, so no poll cycle starts.
C3_NoTickAfterStop ==
    [][stopped => \A k \in Timers : ~(timer[k] = "waiting" /\ timer'[k] = "running")]_vars

\* C4: a cycle that was executing when the stop was issued runs to completion,
\* and once it and the stop's flush have completed no Timer is pending and
\* no sample is left in databuffer.
C4_RunningTickEndsWithStop ==
    \A t \in caught :
        (stopped /\ stopflush = "written" /\ pc[t] = "done" /\ readerr[t] = 0) =>
            /\ \A k \in Timers : timer[k] # "waiting"
            /\ databuffer = <<>>

\* C5: at most one thread is inside runCommunication at any time.
C5_OneCycleInFlight == Cardinality({t \in Threads : InRun(t)}) <= 1

\* C6: with the console as sink (no write can fail), every appended sample is
\* written at most once and, until it is written, is held by exactly one list.
C6_AtomicSwap ==
    logfilename = "None" =>
        \A id \in 1..nSamples :
            /\ Written(id) <= 1
            /\ Written(id) = 0 => Held(id) = 1

\* C7: the threshold check after the append moves the whole of databuffer to
\* datawritebuffer and empties databuffer when len(databuffer) >= logmaxbuffer,
\* and otherwise leaves databuffer, datawritebuffer and the sink unchanged and
\* ends the cycle without a write.
C7_AfterSwap ==
    \A t \in Threads :
        /\ pc[t] = "poll_clear" =>
              /\ datawritebuffer = databuffer
              /\ Len(databuffer) >= logmaxbuffer
              /\ Ids(databuffer)[Len(databuffer)] = nSamples
        /\ pc[t] = "w_open" =>
              /\ databuffer = <<>>
              /\ Len(datawritebuffer) >= logmaxbuffer
              /\ Ids(datawritebuffer)[Len(datawritebuffer)] = nSamples

C7_CheckStep ==
    \A t \in Threads :
        /\ (pc[t] = "poll_check" /\ pc'[t] # "poll_check") =>
              IF Len(databuffer) >= logmaxbuffer
              THEN pc'[t] = "poll_swap"
              ELSE /\ pc'[t] = "rc_close"
                   /\ UNCHANGED <<databuffer, datawritebuffer, logfile>>
        /\ (pc[t] = "poll_clear" /\ pc'[t] # "poll_clear") =>
              /\ databuffer' = <<>>
              /\ datawritebuffer' = databuffer

C7_ThresholdFlush == [](C7_AfterSwap) /\ [][C7_CheckStep]_vars

C7_Witness ==
    /\ logmaxbuffer = 3
    /\ \E t \in Threads : pc[t] = "w_open"
    /\ Ids(datawritebuffer) = <<4, 5, 6>>
    /\ databuffer = <<>>

\* C8: with error-free ticks the j-th batch handed to the sink holds exactly
\* the samples of ticks (j-1)T+1 .. jT, it is handed over during tick jT, and
\* at the end of every tick databuffer holds the (ticks mod T) samples since.
C8_FlushEveryT ==
    /\ \A j \in 1..Len(logfile) :
          logfile[j] = FromTo((j - 1) * logmaxbuffer + 1, j * logmaxbuffer)
    /\ Len(logfile) <= nSamples \div logmaxbuffer
    /\ Len(logfile) * logmaxbuffer >= nSamples - logmaxbuffer
    /\ NoCycleRunning =>
          /\ Len(logfile) = nSamples \div logmaxbuffer
          /\ Len(databuffer) = nSamples % logmaxbuffer
          /\ datawritebuffer = <<>>

C8_Witness ==
    /\ logmaxbuffer = 3
    /\ NoCycleRunning
    /\ logfile = << <<1, 2, 3>>, <<4, 5, 6>> >>
    /\ databuffer = <<>>

\* C9: in single-shot mode exactly one poll cycle starts, no Timer is ever
\* created, and after the stop's flush with threshold 50 the sink holds one
\* batch of one sample.
C9_SingleShot ==
    mode = "single" =>
        /\ nTicks <= 1
        /\ \A k \in Timers : timer[k] = "none"
        /\ (pc[0] = "exit" /\ stopflush = "written" /\ logmaxbuffer = DefaultLogMaxBuffer)
              => logfile = << <<1>> >>

\* C10: the step in which the read of a row fails records None for that row
\* in data.datavector and leaves the thread inside its poll cycle.
C10_ReadFailureStep ==
    \A t \in Threads :
        (readerr[t] = 0 /\ readerr'[t] # 0) =>
            /\ datavector' = Append(datavector, None)
            /\ (InRun(t))'

C10_ReadFailureYieldsNull == [][C10_ReadFailureStep]_vars

\* a new Timer is created and started by the step
TimerScheduled == \E k \in Timers : timer[k] = "none" /\ timer'[k] = "waiting"

\* C11: the step by which a poll cycle ends after its read, decode or format
\* step raised has scheduled the next tick: an error in a cycle does not end
\* the chain of Timers.
C11_ErrorStep ==
    \A t \in Threads :
        (InRun(t) /\ ~(InRun(t))' /\ readerr'[t] # 0) => TimerScheduled

C11_ErrorKeepsScheduler == [][C11_ErrorStep]_vars

\* C12: the step by which a poll cycle ends whose connect failed (and was not
\* made good by a later read) has scheduled the next tick, at which a fresh
\* connect is attempted.
C12_ConnectFailureStep ==
    \A t \in Threads :
        (InRun(t) /\ ~(InRun(t))' /\ client'[t] \in {"failed", "reported"}) => TimerScheduled

C12_ConnectFailureKeepsTicking == [][C12_ConnectFailureStep]_vars

\* C13: a sample that is buffered and not yet written stays buffered until it
\* is written: in particular the batch left in datawritebuffer by a flush
\* that could not open the file is not overwritten by a later threshold swap.
C13_RetainStep ==
    \A id \in 1..nSamples :
        (Written(id) = 0 /\ Held(id) >= 1) => ((Written(id))' >= 1 \/ (Held(id))' >= 1)

C13_FailedBatchRetained == [][C13_RetainStep]_vars

\* C14: when cleanOnExit has completed and each of its flushes could open the
\* file, every sample ever appended has been written exactly once and both
\* lists are empty.
C14_ExitFlushesAll ==
    (pc[0] = "exited" /\ exitflush # "failed") =>
        /\ \A id \in 1..nSamples : Written(id) = 1
        /\ databuffer = <<>>
        /\ datawritebuffer = <<>>

\* the value decoded for row i of the table, for a type data.moddatatype knows
Decoded(i) == Interpret(datasets[i].type, datasets[i].registers)

Decodes(i) == datasets[i].type \in DOMAIN moddatatype /\ ~IsRaise(Decoded(i))

IsInteger(v) == "mag" \in DOMAIN v

Sentinels == {[neg |-> TRUE, mag |-> <<0, 0, 32768, 0>>], [neg |-> FALSE, mag |-> <<0, 0, 65535, 65535>>]}

NoData == [kind |-> "none", val |-> [neg |-> FALSE, mag |-> <<0, 0, 0, 0>>], div |-> 1]

KnownFormats == {"RAW", "FIX0", "FIX1", "FIX2", "FIX3", "UTF8", "ENUM"}

\* C15: a decoded value of -2147483648 or 4294967295 is recorded as None
\* whatever the element type (S32, U32, U64) and whatever the format kind.
C15_SentinelIsNull ==
    \A i \in 1..Len(datavector) :
        (Decodes(i) /\ Decoded(i) \in Sentinels) => datavector[i] = NoData

C15_Witness ==
    /\ datasets[1].type = "U64" /\ datasets[1].registers = <<0, 0, 65535, 65535>>
    /\ datasets[1].format = "FIX1"
    /\ datavector = <<NoData>>
    /\ Len(databuffer) = 1

\* C16: a decoded integer v that is no sentinel is recorded as v / 1000,
\* v / 100, v / 10 under FIX3, FIX2, FIX1 and as v itself under FIX0, RAW,
\* UTF8 and ENUM; U32 words <<0, 1>> under FIX2 give 1 / 100 and U16 1234
\* under RAW gives 1234.
C16_Divisor(format) ==
    CASE format = "FIX3" -> 1000
      [] format = "FIX2" -> 100
      [] format = "FIX1" -> 10
      [] OTHER           -> 1

C16_FixedPoint ==
    \A i \in 1..Len(datavector) :
        /\ (Decodes(i) /\ IsInteger(Decoded(i)) /\ Decoded(i) \notin Sentinels
                /\ datasets[i].format \in KnownFormats)
              => datavector[i] = [kind |-> "num", val |-> Decoded(i), div |-> C16_Divisor(datasets[i].format)]
        /\ (datasets[i].type = "U32" /\ datasets[i].registers = <<0, 1>> /\ datasets[i].format = "FIX2")
              => datavector[i] = [kind |-> "num", val |-> [neg |-> FALSE, mag |-> <<0, 0, 0, 1>>], div |-> 100]
        /\ (datasets[i].type = "U16" /\ datasets[i].registers = <<1234>> /\ datasets[i].format = "RAW")
              => datavector[i] = [kind |-> "num", val |-> [neg |-> FALSE, mag |-> <<0, 0, 0, 1234>>], div |-> 1]

C16_Witness ==
    /\ datasets[1].type = "U32" /\ datasets[1].registers = <<0, 1>>
    /\ datasets[1].format = "FIX2"
    /\ datavector = <<[kind |-> "num", val |-> [neg |-> FALSE, mag |-> <<0, 0, 0, 1>>], div |-> 100]>>
    /\ Len(databuffer) = 1

\* C17: under a format kind that is none of RAW, FIX0..FIX3, UTF8, ENUM a
\* decoded value is recorded as it is under RAW (the value itself, None for a
\* sentinel) and the cycle does not raise.
C17_UnknownFormatIsRaw ==
    \A i \in 1..Len(datasets) :
        (Decodes(i) /\ datasets[i].format \notin KnownFormats) =>
            /\ \A t \in Threads : readerr[t] # i
            /\ i <= Len(datavector) =>
                  datavector[i] = IF Decoded(i) \in Sentinels THEN NoData
                                  ELSE [kind |-> "num", val |-> Decoded(i), div |-> 1]

C17_Witness ==
    /\ datasets[1].type = "S16" /\ datasets[1].registers = <<65535>>
    /\ datasets[1].format = "HEX"
    /\ datavector = <<[kind |-> "num", val |-> [neg |-> TRUE, mag |-> <<0, 0, 0, 1>>], div |-> 1]>>
    /\ Len(databuffer) = 1

\* C18: the text decoded for a STR32 row is recorded unchanged under every
\* format kind, and the cycle does not raise.
C18_TextPassesThrough ==
    \A i \in 1..Len(datasets) :
        datasets[i].type = "STR32" =>
            /\ \A t \in Threads : readerr[t] # i
            /\ i <= Len(datavector) =>
                  datavector[i] = [kind |-> "num", val |-> Decoded(i), div |-> 1]

\* C19: a register block whose word count differs from the count of the
\* row's type does not decode: None is recorded for the row and the cycle
\* goes on (it does not raise).
C19_WrongLengthIsNoData ==
    \A i \in 1..Len(datasets) :
        (datasets[i].type \in DOMAIN moddatatype
            /\ Len(datasets[i].registers) # moddatatype[datasets[i].type]) =>
            /\ \A t \in Threads : readerr[t] # i
            /\ i <= Len(datavector) => datavector[i] = NoData

\* C20: for a block of the mandated length the recorded integer is the
\* big-endian composition of the words, read unsigned for U16, U32, U64 and
\* as two's complement for S16, S32 (a negative value's magnitude and the
\* bit pattern add up to 2^16, 2^32).
C20_Limbs(v) == \A j \in 1..4 : v.mag[j] \in 0..65535

C20_Composed(type, w, v) ==
    CASE type = "U16" -> ~v.neg /\ v.mag = <<0, 0, 0, w[1]>>
      [] type = "U32" -> ~v.neg /\ v.mag = <<0, 0, w[1], w[2]>>
      [] type = "U64" -> ~v.neg /\ v.mag = <<w[1], w[2], w[3], w[4]>>
      [] type = "S16" ->
            IF w[1] < 32768 THEN ~v.neg /\ v.mag = <<0, 0, 0, w[1]>>
            ELSE v.neg /\ v.mag[1] = 0 /\ v.mag[2] = 0 /\ v.mag[3] = 0 /\ v.mag[4] + w[1] = 65536
      [] type = "S32" ->
            IF w[1] < 32768 THEN ~v.neg /\ v.mag = <<0, 0, w[1], w[2]>>
            ELSE /\ v.neg /\ v.mag[1] = 0 /\ v.mag[2] = 0
                 /\ (v.mag[4] + w[2]) \in {0, 65536}
                 /\ v.mag[3] + w[1] + ((v.mag[4] + w[2]) \div 65536) = 65536

C20_BigEndian ==
    \A i \in 1..Len(datavector) :
        (datasets[i].type \in {"S16", "U16", "S32", "U32", "U64"}
            /\ Len(datasets[i].registers) = moddatatype[datasets[i].type]
            /\ datavector[i].kind = "num") =>
            /\ C20_Limbs(datavector[i].val)
            /\ C20_Composed(datasets[i].type, datasets[i].registers, datavector[i].val)

C20_Witness ==
    /\ datasets[1].type = "S32" /\ datasets[1].registers = <<65535, 1234>>
    /\ datasets[1].format = "RAW"
    /\ datavector = <<[kind |-> "num", val |-> [neg |-> TRUE, mag |-> <<0, 0, 0, 64302>>], div |-> 1]>>
    /\ Len(databuffer) = 1

\* C21: the text recorded for a STR32 row answered with 16 words holds the
\* bytes of the words, high byte first, without the null padding at its end:
\* it does not end in a null byte.
C21_TextIsTrimmed ==
    \A i \in 1..Len(datavector) :
        (datasets[i].type = "STR32" /\ Len(datasets[i].registers) = 16
            /\ datasets[i].format \in {"RAW", "UTF8"}) =>
            LET text == datavector[i].val.str
            IN  /\ \A j \in 1..Len(text) : text[j] = fromRegisters(datasets[i].registers)[j]
                /\ Len(text) > 0 => text[Len(text)] # 0

\* C28: a row whose type is no key of data.moddatatype is read and recorded
\* as the unsigned value of its first register, and the cycle does not raise.
C28_UnknownTypeIsRaw ==
    \A i \in 1..Len(datasets) :
        datasets[i].type \notin {"S16", "U16", "S32", "U32", "U64", "STR32"} =>
            /\ \A t \in Threads : readerr[t] # i
            /\ i <= Len(datavector) => datavector[i].kind = "num"

\* C30: at most one Timer is waiting at any time, and inout.commtimer refers
\* to it.
C30_OnePendingTimer ==
    /\ Cardinality({k \in Timers : timer[k] = "waiting"}) <= 1
    /\ \A k \in Timers : timer[k] = "waiting" => commtimer = k

\* C22: the sample a cycle appends holds one value for every row of the
\* table the cycle iterated over, in the order of the rows: position i is
\* the formatted value of row i.
C22_VectorStep ==
    \A t \in Threads :
        (pc[t] = "poll_append" /\ pc'[t] = "poll_check") =>
            LET vec == databuffer'[Len(databuffer')].vec
            IN  /\ Len(vec) = Len(slice[t])
                /\ \A i \in 1..Len(vec) : vec[i] = PollRow(slice[t][i])

C22_VectorMatchesTable == [][C22_VectorStep]_vars

\* C23: data.datasets does not change while the loop of a poll cycle is
\* passing over the table.
C23_NoEditStep ==
    (\E t \in Threads : pc[t] = "poll_read") => datasets' = datasets

C23_NoEditDuringCycle == [][C23_NoEditStep]_vars

\* C24: a thread is past the connect of runCommunication (polling, flushing
\* or about to start the next Timer) only with a client whose connect
\* succeeded and a table that has at least one row.
C24_PollsOnlyWhenReady ==
    \A t \in Threads :
        (InRun(t) /\ pc[t] # "rc_connect") =>
            /\ client[t] \notin {"failed", "reported"}
            /\ Len(slice[t]) > 0

\* C26: a cycle that has collected its values goes on to append its sample
\* and to test the threshold, whatever the display update does.
C26_DisplayStep ==
    \A t \in Threads :
        (pc[t] = "poll_append" /\ pc'[t] # "poll_append") =>
            /\ pc'[t] = "poll_check"
            /\ nSamples' = nSamples + 1

C26_DisplayIsBestEffort == [][C26_DisplayStep]_vars

\* C27: with a log file, a step changes the file only by adding to its end,
\* and the rows of the file are in the order the samples were collected.
C27_AppendStep ==
    logfilename = "file" =>
        /\ Len(logfile') >= Len(logfile)
        /\ SubSeq(logfile', 1, Len(logfile)) = logfile

C27_InOrder ==
    logfilename = "file" =>
        \A j, k \in 1..Len(Flat(logfile)) : j < k => Flat(logfile)[j] < Flat(logfile)[k]

C27_AppendOnly == [](C27_InOrder) /\ [][C27_AppendStep]_vars

\* C25: whenever a Timer is created and started, the interval it is given
\* (data.loginterval) is at least 1.
C25_IntervalStep == TimerScheduled => loginterval >= 1

C25_IntervalAtLeastOne == [][C25_IntervalStep]_vars

\* C29: whenever a cycle tests the buffer against the threshold,
\* data.logmaxbuffer is at least 1.
C29_ThresholdAtLeastOne ==
    \A t \in Threads : pc[t] = "poll_check" => logmaxbuffer >= 1

\* C32: while no poll cycle is executing, data.databuffer holds fewer samples
\* than data.logmaxbuffer (the threshold is at least 1 and does not change).
C32_BelowThreshold ==
    (logmaxbuffer >= 1 /\ NoCycleRunning) => Len(databuffer) < logmaxbuffer

\* a threshold flush has happened and the buffer has filled up again to one
\* sample below the threshold
C32_Witness ==
    /\ logmaxbuffer = 3
    /\ NoCycleRunning
    /\ Len(logfile) = 1
    /\ Ids(databuffer) = <<4, 5>>

\* C35: a recorded value is None only if the row decoded to -2147483648 or
\* to 4294967295; the value of an S16 or U16 row is never None.
C35_NullOnlyForSentinels ==
    \A i \in 1..Len(datavector) :
        /\ datavector[i].kind = "none" => (Decodes(i) /\ Decoded(i) \in Sentinels)
        /\ datasets[i].type \in {"S16", "U16"} => datavector[i].kind # "none"

\* a U16 row answered with 65535 (all ones) is recorded as the number 65535
C35_Witness ==
    /\ datasets[1].type = "U16" /\ datasets[1].registers = <<65535>>
    /\ datasets[1].format = "RAW"
    /\ datavector = <<[kind |-> "num", val |-> [neg |-> FALSE, mag |-> <<0, 0, 0, 65535>>], div |-> 1]>>
    /\ Len(databuffer) = 1

\* C33: the step in which a read, the decoding or the formatting of a row
\* raises changes neither data.databuffer nor data.datawritebuffer and appends
\* no sample, and the cycle it abandons never appends one afterwards.
C33_AbandonStep ==
    \A t \in Threads :
        (readerr[t] = 0 /\ readerr'[t] # 0) =>
            /\ databuffer' = databuffer
            /\ datawritebuffer' = datawritebuffer
            /\ nSamples' = nSamples

C33_Abandoned ==
    \A t \in Threads : readerr[t] # 0 => (~InRun(t) \/ pc[t] = "rc_connect")

C33_AbandonedCycleKeepsBuffer == [](C33_Abandoned) /\ [][C33_AbandonStep]_vars

\* the second tick has raised at the second row of its table while the sample
\* of the first tick is buffered
C33_Witness ==
    \E t \in Timers :
        /\ readerr[t] = 2 /\ pc[t] = "done"
        /\ Len(datavector) = 1
        /\ Ids(databuffer) = <<1>>
        /\ datawritebuffer = <<>>

\* C36: when a tick starts, no connection opened by an earlier tick is still
\* open: client.close() has run on every one of them.
C36_TickStep ==
    nTicks' > nTicks => \A t \in Threads : client[t] # "open"

C36_ClosedBeforeNextTick == [][C36_TickStep]_vars

\* C37: the log file holds at most one header, and no data row was written
\* to the file before it.
C37_HeaderOnceAndFirst ==
    /\ Len(header) <= 1
    /\ \A i \in 1..Len(header) : \A j \in 1..header[i] : logfile[j] = <<>>

\* C31: a call of writeLoggerDataFile chooses data.datawritebuffer when it is
\* not empty and data.databuffer otherwise, hands the chosen list to the
\* sink, and returns with the chosen list emptied and the other one as it
\* was; a call that returns because the file cannot be opened changes neither.
C31_CallStep ==
    \A t \in Threads :
        /\ (pc[t] = "w_open" /\ pc'[t] \notin WritePcs) =>
              (databuffer' = databuffer /\ datawritebuffer' = datawritebuffer)
        /\ (pc[t] = "w_open" /\ pc'[t] = "w_wb_out") => Len(datawritebuffer) > 0
        /\ (pc[t] = "w_open" /\ pc'[t] = "w_db_out") => Len(datawritebuffer) = 0
        /\ (pc[t] = "w_wb_out" /\ pc'[t] # "w_wb_out") =>
              /\ logfile' = Append(logfile, Ids(datawritebuffer))
              /\ databuffer' = databuffer /\ datawritebuffer' = datawritebuffer
        /\ (pc[t] = "w_db_out" /\ pc'[t] # "w_db_out") =>
              /\ logfile' = Append(logfile, Ids(databuffer))
              /\ databuffer' = databuffer /\ datawritebuffer' = datawritebuffer
        /\ (pc[t] = "w_wb_clear" /\ pc'[t] # "w_wb_clear") =>
              (datawritebuffer' = <<>> /\ databuffer' = databuffer)
        /\ (pc[t] = "w_db_clear" /\ pc'[t] # "w_db_clear") =>
              (databuffer' = <<>> /\ datawritebuffer' = datawritebuffer)

C31_OneListHandedAndEmptied == [][C31_CallStep]_vars

\* C34: in the LCD variant, the step in which the read of a row raises
\* reports exactly one error message, appends no sample and puts nothing on
\* the display, and the cycle goes on to close the connection and to start
\* the Timer of the next tick; a cycle whose read raised never appends or
\* displays afterwards.
C34_ExceptStep ==
    \A t \in Threads :
        /\ (readerr[t] = 0 /\ readerr'[t] # 0) =>
              /\ errormessages' = errormessages + 1
              /\ nSamples' = nSamples
              /\ databuffer' = databuffer /\ datawritebuffer' = datawritebuffer
              /\ logfile' = logfile
              /\ pc'[t] = "rc_close"
        /\ (readerr[t] # 0 /\ pc[t] = "rc_close" /\ pc'[t] # "rc_close") =>
              /\ client'[t] = "closed"
              /\ TimerScheduled
              /\ nSamples' = nSamples /\ logfile' = logfile

C34_AfterExcept ==
    /\ \A t \in Threads : readerr[t] # 0 => pc[t] \in {"rc_close", "rc_connect", "idle", "main_end", "done"}
    /\ errormessages <= nTicks

C34_ReadErrorIsReported == [](C34_AfterExcept) /\ [][C34_ExceptStep]_vars

\* the first tick's read raised at the third row and was reported; the tick
\* of the Timer it started has polled all six rows and put its sample, the
\* only one, on the display
C34_Witness ==
    /\ mode = "cli"
    /\ readerr[0] = 3 /\ client[0] = "closed"
    /\ errormessages = 1
    /\ nSamples = 1
    /\ logfile = << <<1>> >>
    /\ Len(datavector) = 6
    /\ pc[1] = "done" /\ client[1] = "closed"

====
